---- MODULE Spec2Model ----
(***************************************************************************)
(* State-machine model of react-login-demo's orchestration core:           *)
(*   - the popup modal manager (contexts/PopupModalManagerContext.tsx),    *)
(*     a React useState queue with batched state updates;                  *)
(*   - the profile-setup wizard step and the profile-picture screen        *)
(*     (routes/ProfileSetupProfilePicture.tsx) inside the setup page's     *)
(*     carousel (features/profile/setup/ProfileSetupPage.tsx);             *)
(*   - the session value and the route guards of the home, sign-in and     *)
(*     sign-up pages (routes/IndexPage.tsx, routes/SignUpPage.tsx), with   *)
(*     the overlays of the sign pages and the sign-up form's submit        *)
(*     handler.                                                            *)
(***************************************************************************)
EXTENDS Integers, Sequences, FiniteSets, TLC

VARIABLES
    modals,      \* useState<Modal[]> value of the last render (what the closures see)
    queued,      \* the value the state updates queued since that render produce
    dirty,       \* whether an update is queued, so that a render is due
    calls,       \* number of queueModal calls so far (numbers the props and the uuids)
    snap,        \* the array last returned by getModals, as held by the caller
    expected,    \* the calls of the current pass applied one after another
    last,        \* the operation that acted last, with the queue it acted on
    currentStep,         \* wizard controller: current step
    isLoading,           \* picture screen: useState(false)
    imageFileSrc,        \* picture screen: useState<string>()
    isCropEditorVisible, \* picture screen: useState(false)
    croppedImage,        \* picture screen: useRef<Blob>()
    imagePreviewUrl,     \* picture screen: useState<string>()
    inflight,            \* picture screen: asynchronous operations not yet settled
    activeIndex,         \* setup page: the carousel's active slide (position in Slides)
    hideLoader,          \* setup page: useState(false)
    wlast,               \* the wizard or screen handler that ran last, and what it found
    user,        \* session: the signed-in user, or NoUser
    history,     \* router: the history stack, the current route last
    request,     \* sign-in / sign-up form: the request awaiting its response
    nav,         \* the guard or page handler that ran last, and what it did
    page,        \* the mounted sign-in or sign-up page: its three useState flags
    userWarnedUntrimmedPassword, \* sign-up form: useState(false)
    sub          \* sign-up form: its last submission, and what the handler did

popupVars == <<modals, queued, dirty, calls, snap, expected, last>>
wizardVars == <<currentStep, isLoading, imageFileSrc,
                isCropEditorVisible, croppedImage, imagePreviewUrl, inflight,
                activeIndex, hideLoader, wlast>>
sessionVars == <<user, history, request, nav, page,
                 userWarnedUntrimmedPassword, sub>>
vars == <<modals, queued, dirty, calls, snap, expected, last,
          currentStep, isLoading, imageFileSrc,
          isCropEditorVisible, croppedImage, imagePreviewUrl, inflight,
          activeIndex, hideLoader, wlast,
          user, history, request, nav, page,
          userWarnedUntrimmedPassword, sub>>

-----------------------------------------------------------------------------
(* Bounds *)
MaxCalls == 4        \* queueModal calls in a behaviour
MaxSnapMutations == 1 \* caller mutations applied to one returned array
MaxHistory == 3      \* entries of the history stack
MaxRedirects == 2    \* guard redirects counted for one session value

-----------------------------------------------------------------------------
(* Popup modal manager *)

\* uuidv4(): a fresh identifier per call, never equal to a caller-chosen id
uuidv4(n) == <<"uuid-1", "uuid-2", "uuid-3", "uuid-4", "uuid-5", "uuid-6">>[n]

NoId == "none"
\* The descriptors callers pass: an id (or none), a type and a props bag
CallerIds == {"busy"}
ModalInputs ==
    { [id |-> "busy", type |-> "busy"],
      [id |-> NoId, type |-> "alert"] }

NoModal == [id |-> NoId, type |-> "none", props |-> 0]

\* { ...modal, id: modal.id ?? uuidv4() }
newModal(modal, n) ==
    [id |-> IF modal.id # NoId THEN modal.id ELSE uuidv4(n),
     type |-> modal.type,
     props |-> n]

Min(a, b) == IF a < b THEN a ELSE b

toSplicedAtEnd(q, m) == Append(q, m)
toSplicedAtHead(q, m) == <<m>> \o q
\* modals.toSpliced(1, 0, newModal): start is clamped to the array length
toSpliced(q, m) ==
    LET start == Min(1, Len(q))
    IN  SubSeq(q, 1, start) \o <<m>> \o SubSeq(q, start + 1, Len(q))

\* modals.filter(modal => modal.id !== id)
filter(q, id) == SelectSeq(q, LAMBDA m : m.id # id)

\* React keeps the updates queued since the last render and runs them in order
\* when it renders.  The queue is kept folded: `queued` is the value the updates
\* queued so far produce, starting from the rendered value.
\* setState(fn): the updater runs on the value the earlier updates produced
Updater(q, m) == toSpliced(q, m)
\* setState(value): the value replaces whatever the earlier updates produced
Value(q, v) == v

queueModalUpdateStale(closure, q, m) == Value(q, toSpliced(closure, m))
\* setModals(modals => modals.toSpliced(1, 0, newModal))
queueModalUpdate(closure, q, m) == Updater(q, m)

\* setModals(modals.filter(...)): computed from the modals of the closure
hideModalUpdate(closure, q, id) == Value(q, filter(closure, id))

clearModalsKeepsHead(closure, q) == Value(q, SubSeq(closure, 1, Min(1, Len(closure))))
\* setModals([])
clearModalsUpdate(closure, q) == Value(q, <<>>)

getModalsAliased(q) == [items |-> q, alias |-> TRUE, mutations |-> 0]
\* [...modals]: a new array with the same elements
getModalsResult(q) == [items |-> q, alias |-> FALSE, mutations |-> 0]

Ids(q) == { q[i].id : i \in 1..Len(q) }

\* Program order, for reference: each call of a pass applied to the queue as
\* the calls before it left it (tracked in `expected`)
PassBase == IF dirty THEN expected ELSE modals
InsertSecond(q, m) == IF q = <<>> THEN <<m>> ELSE <<q[1], m>> \o Tail(q)
WithoutId(q, id) == SelectSeq(q, LAMBDA m : m.id # id)

\* Whether the operations since `runBase` were queueModal calls only
InRun == last.op \in {"queueModal", "render", "getModals", "mutate"} /\ last.run > 0

\* What is recorded of an operation: its name and arguments, the queue it
\* found (rendered: committed, with the queued updates: before), and whether
\* it threw (no operation of the manager has a throw)
Last(op, id, m) ==
    [op |-> op, id |-> id, modal |-> m, threw |-> FALSE,
     before |-> queued, committed |-> modals,
     run |-> IF op = "queueModal" THEN (IF InRun THEN last.run + 1 ELSE 1)
             ELSE IF op \in {"render", "getModals", "mutate"} /\ InRun THEN last.run
             ELSE 0,
     runBase |-> IF op = "queueModal" THEN (IF InRun THEN last.runBase ELSE queued)
                 ELSE IF op \in {"render", "getModals", "mutate"} /\ InRun THEN last.runBase
                 ELSE <<>>]
Done(op) ==
    [op |-> op, id |-> NoId, modal |-> NoModal, threw |-> FALSE,
     before |-> <<>>, committed |-> <<>>, run |-> 0, runBase |-> <<>>]
NoSnap == [items |-> <<>>, alias |-> FALSE, mutations |-> 0]

QueueModal(modal) ==
    /\ calls < MaxCalls
    /\ LET m == newModal(modal, calls + 1)
       IN  /\ queued' = queueModalUpdate(modals, queued, m)
           /\ expected' = InsertSecond(PassBase, m)
           /\ last' = Last("queueModal", modal.id, m)
    /\ dirty' = TRUE
    /\ calls' = calls + 1
    /\ snap' = NoSnap
    /\ UNCHANGED modals
    /\ UNCHANGED <<wizardVars, sessionVars>>

HideModal(id) ==
    /\ queued' = hideModalUpdate(modals, queued, id)
    /\ dirty' = TRUE
    /\ expected' = WithoutId(PassBase, id)
    /\ last' = Last("hideModal", id, NoModal)
    /\ snap' = NoSnap
    /\ UNCHANGED <<modals, calls>>
    /\ UNCHANGED <<wizardVars, sessionVars>>

ClearModals ==
    /\ queued' = clearModalsUpdate(modals, queued)
    /\ dirty' = TRUE
    /\ expected' = <<>>
    /\ last' = Last("clearModals", NoId, NoModal)
    /\ snap' = NoSnap
    /\ UNCHANGED <<modals, calls>>
    /\ UNCHANGED <<wizardVars, sessionVars>>

GetModals ==
    /\ snap' = getModalsResult(modals)
    /\ last' = Last("getModals", NoId, NoModal)
    /\ UNCHANGED <<modals, queued, dirty, calls, expected>>
    /\ UNCHANGED <<wizardVars, sessionVars>>

\* What a caller may do to the array it was handed
Mutations(items) ==
    { Append(items, NoModal) }
    \cup (IF items = <<>> THEN {} ELSE { Tail(items) })
    \cup (IF Len(items) < 2 THEN {}
          ELSE { <<items[2], items[1]>> \o SubSeq(items, 3, Len(items)) })

MutateSnapshot ==
    /\ last.op \in {"getModals", "mutate"}
    /\ snap.mutations < MaxSnapMutations
    /\ \E items \in Mutations(snap.items) :
          /\ snap' = [snap EXCEPT !.items = items, !.mutations = @ + 1]
          /\ modals' = IF snap.alias THEN items ELSE modals
          /\ queued' = IF snap.alias /\ ~dirty THEN items ELSE queued
    /\ last' = Last("mutate", NoId, NoModal)
    /\ UNCHANGED <<dirty, calls, expected>>
    /\ UNCHANGED <<wizardVars, sessionVars>>

\* The provider re-renders: the queued updates become the rendered value
Render ==
    /\ dirty
    /\ modals' = queued
    /\ dirty' = FALSE
    /\ snap' = NoSnap
    /\ last' = Last("render", NoId, NoModal)
    /\ UNCHANGED <<queued, calls, expected>>
    /\ UNCHANGED <<wizardVars, sessionVars>>

shouldShowModalBeyondOne(q) == Len(q) > 1
\* ModalOverlay: shouldShowModal = popupManager.modals.length > 0
shouldShowModal(q) == Len(q) > 0
\* The backdrop is rendered from the modals of the last render
OverlayShown == shouldShowModal(modals)
\* The modals container displays the first descriptor of the queue, if any
ActiveModals(q) == IF q = <<>> THEN {} ELSE {q[1]}

PopupInit ==
    /\ modals = <<>>
    /\ queued = <<>>
    /\ dirty = FALSE
    /\ calls = 0
    /\ snap = NoSnap
    /\ expected = <<>>
    /\ last = Done("init")

-----------------------------------------------------------------------------
(* Profile-setup wizard and the profile-picture screen *)

MaxInflightCrops == 1   \* cropImage calls awaited at the same time

Undefined == "undefined"

\* enum ProfileSetupStep
ProfileSetupStep == {"STEP_USERNAME", "STEP_PROFILE_PICTURE"}

\* ProfileSetupStep.<name>: reading a member the enum object does not have
\* gives undefined
StepMember(name) == IF name \in ProfileSetupStep THEN name ELSE Undefined

\* The flow's first step
InitialStep == StepMember("STEP_USERNAME")

setCurrentStepForwardOnly(current, step) ==
    IF current = "STEP_PROFILE_PICTURE" /\ step = "STEP_USERNAME" THEN current ELSE step
\* setCurrentStep(step): the step becomes exactly the given value
setCurrentStep(current, step) == step

\* The files a user may pick
Files == {"a.jpg", "b.jpg"}
\* fixImageOrientation(file): an image URL, or none, or a rejection
fixImageOrientation(file) == {"url:" \o file, Undefined, "rejected"}
\* cropImage(src, params): a blob, or none, or a rejection
cropImage(src) == {"blob:" \o src, Undefined, "rejected"}
\* URL.createObjectURL(blob)
createObjectURL(blob) == "object:" \o blob
\* setProfilePicture(...): resolves with success true or false, or rejects
setProfilePicture == {"success", "failure", "rejected"}

\* The three views of the screen's render
BusyShown == isLoading
EditorShown == isCropEditorVisible /\ ~isLoading
FormShown == ~isCropEditorVisible /\ ~isLoading

\* ProfilePicturePreview: the <img> it renders for a given src
ProfilePicturePreview(src) ==
    [alt |-> "Preview of profile picture",
     src |-> IF src # Undefined THEN src
             ELSE "/assets/images/profile-picture-blank.jpg"]
\* The preview images on the screen: the form renders one, from previewUrl
PreviewImages ==
    IF FormShown THEN {ProfilePicturePreview(imagePreviewUrl)} ELSE {}

Op(kind, arg, stage) == [kind |-> kind, arg |-> arg, stage |-> stage]
InflightOf(kind) == { i \in 1..Len(inflight) : inflight[i].kind = kind }
Drop(seq, i) == SubSeq(seq, 1, i - 1) \o SubSeq(seq, i + 1, Len(seq))

\* A promise chain runs its .then and .finally callbacks in one microtask
\* checkpoint: no event handler and no other task runs between the two
Settling == \E i \in 1..Len(inflight) : inflight[i].stage = "finally"

\* What is recorded of a handler: its name, its argument or result, and the
\* step, stored image and preview it found
Seen(op, arg) ==
    [op |-> op, arg |-> arg,
     prev |-> [currentStep |-> currentStep, croppedImage |-> croppedImage,
               imagePreviewUrl |-> imagePreviewUrl]]

showCropperHidden(url) ==
    /\ imageFileSrc' = url
    /\ isCropEditorVisible' = FALSE
showCropperAlwaysVisible(url) ==
    /\ imageFileSrc' = url
    /\ isCropEditorVisible' = TRUE
\* showCropper(url)
showCropper(url) ==
    /\ imageFileSrc' = url
    /\ isCropEditorVisible' = (url # Undefined)

hideCropperKeepsEditor == UNCHANGED <<imageFileSrc, isCropEditorVisible>>
\* hideCropper = () => showCropper(undefined)
hideCropper == showCropper(Undefined)

\* goToNextStep
goToNextStep ==
    currentStep' = setCurrentStep(currentStep, StepMember("STEP_COMPLETE"))

handleCropConfirmKeepsPreview(blob) ==
    /\ croppedImage' = blob
    /\ imagePreviewUrl' = imagePreviewUrl
    /\ hideCropper
\* handleCropConfirm(blob)
handleCropConfirm(blob) ==
    /\ croppedImage' = blob
    /\ imagePreviewUrl' = createObjectURL(blob)
    /\ hideCropper

onSubmitResponseRetreats(res) ==
    IF res = "success" THEN goToNextStep
    ELSE currentStep' = setCurrentStep(currentStep, StepMember("STEP_PROFILE_PICTURE"))
onSubmitResponseAlways(res) == goToNextStep
\* (res) => { if (res.success) goToNextStep() }, and .catch(console.error)
onSubmitResponse(res) ==
    IF res = "success" THEN goToNextStep ELSE UNCHANGED currentStep

finallyHandlerSkipped == UNCHANGED isLoading
\* .finally(() => { setIsLoading(false) })
finallyHandler == isLoading' = FALSE

\* The slides of the setup page's carousel, in order
Slides == <<"loader", "username", "picture", "complete">>
\* swiper.slideNext(): one slide on, the last slide stays
slideNext(i) == Min(i + 1, Len(Slides))
\* The step each slide is marked with
SlideFor(step) ==
    CASE step = "STEP_USERNAME" -> "username"
      [] step = "STEP_PROFILE_PICTURE" -> "picture"
      [] OTHER -> "complete"

\* A consumer of the wizard controller sets a step of the enumeration
SetCurrentStep(step) ==
    /\ ~Settling
    /\ currentStep' = setCurrentStep(currentStep, step)
    /\ wlast' = Seen("setCurrentStep", step)
    /\ UNCHANGED <<isLoading, imageFileSrc, isCropEditorVisible, croppedImage,
                   imagePreviewUrl, inflight, activeIndex, hideLoader>>
    /\ UNCHANGED <<popupVars, sessionVars>>

\* The username screen, on a successful claim, moves the wizard on
UsernameClaimed ==
    /\ ~Settling
    /\ currentStep = StepMember("STEP_USERNAME")
    /\ currentStep' = setCurrentStep(currentStep, StepMember("STEP_PROFILE_PICTURE"))
    /\ wlast' = Seen("UsernameClaimed", Undefined)
    /\ UNCHANGED <<isLoading, imageFileSrc, isCropEditorVisible, croppedImage,
                   imagePreviewUrl, inflight, activeIndex, hideLoader>>
    /\ UNCHANGED <<popupVars, sessionVars>>

\* ProfileSetupPage: the timer of the mount effect
LoaderTimeout ==
    /\ ~Settling
    /\ ~hideLoader
    /\ hideLoader' = TRUE
    /\ activeIndex' = slideNext(activeIndex)
    /\ wlast' = Seen("LoaderTimeout", Undefined)
    /\ UNCHANGED <<currentStep, isLoading, imageFileSrc, isCropEditorVisible,
                   croppedImage, imagePreviewUrl, inflight>>
    /\ UNCHANGED <<popupVars, sessionVars>>

\* handleFileSelect
FileSelect(file) ==
    /\ ~Settling
    /\ FormShown
    /\ isLoading' = TRUE
    /\ inflight' = Append(inflight, Op("orient", file, "pending"))
    /\ wlast' = Seen("FileSelect", file)
    /\ UNCHANGED <<currentStep, imageFileSrc, isCropEditorVisible, croppedImage,
                   imagePreviewUrl, activeIndex, hideLoader>>
    /\ UNCHANGED <<popupVars, sessionVars>>

\* fixImageOrientation(file).then(url => { if (url) showCropper(url) })
OrientationThen ==
    /\ ~Settling
    /\ \E i \in InflightOf("orient") :
          /\ inflight[i].stage = "pending"
          /\ \E url \in fixImageOrientation(inflight[i].arg) :
                /\ IF url \notin {Undefined, "rejected"}
                   THEN showCropper(url)
                   ELSE UNCHANGED <<imageFileSrc, isCropEditorVisible>>
                /\ wlast' = Seen("OrientationThen", url)
          /\ inflight' = [inflight EXCEPT ![i].stage = "finally"]
    /\ UNCHANGED <<currentStep, isLoading, croppedImage, imagePreviewUrl,
                   activeIndex, hideLoader>>
    /\ UNCHANGED <<popupVars, sessionVars>>

\* .finally(() => { setIsLoading(false) })
OrientationFinally ==
    /\ \E i \in InflightOf("orient") :
          /\ inflight[i].stage = "finally"
          /\ inflight' = Drop(inflight, i)
    /\ finallyHandler
    /\ wlast' = Seen("OrientationFinally", wlast.arg)
    /\ UNCHANGED <<currentStep, imageFileSrc, isCropEditorVisible, croppedImage,
                   imagePreviewUrl, activeIndex, hideLoader>>
    /\ UNCHANGED <<popupVars, sessionVars>>

\* ProfilePictureEditor.handleConfirm, up to the await of cropImage
CropConfirm ==
    /\ ~Settling
    /\ EditorShown
    /\ imageFileSrc # Undefined
    /\ Cardinality(InflightOf("crop")) < MaxInflightCrops
    /\ inflight' = Append(inflight, Op("crop", imageFileSrc, "pending"))
    /\ wlast' = Seen("CropConfirm", imageFileSrc)
    /\ UNCHANGED <<currentStep, isLoading, imageFileSrc, isCropEditorVisible,
                   croppedImage, imagePreviewUrl, activeIndex, hideLoader>>
    /\ UNCHANGED <<popupVars, sessionVars>>

\* handleConfirm after the await: onApply(imageBlob), which is handleCropConfirm
CropSettled ==
    /\ ~Settling
    /\ \E i \in InflightOf("crop") :
          /\ \E blob \in cropImage(inflight[i].arg) :
                /\ IF blob \notin {Undefined, "rejected"}
                   THEN handleCropConfirm(blob)
                   ELSE UNCHANGED <<croppedImage, imagePreviewUrl, imageFileSrc,
                                    isCropEditorVisible>>
                /\ wlast' = Seen("CropSettled", blob)
          /\ inflight' = Drop(inflight, i)
    /\ UNCHANGED <<currentStep, isLoading, activeIndex, hideLoader>>
    /\ UNCHANGED <<popupVars, sessionVars>>

\* onCancel={hideCropper}
CropCancel ==
    /\ ~Settling
    /\ EditorShown
    /\ hideCropper
    /\ wlast' = Seen("CropCancel", Undefined)
    /\ UNCHANGED <<currentStep, isLoading, croppedImage, imagePreviewUrl, inflight,
                   activeIndex, hideLoader>>
    /\ UNCHANGED <<popupVars, sessionVars>>

\* handleSubmitResponse, the Continue button (rendered when a preview exists)
Submit ==
    /\ ~Settling
    /\ FormShown
    /\ imagePreviewUrl # Undefined
    /\ isLoading' = TRUE
    /\ inflight' = IF croppedImage = Undefined
                   THEN inflight   \* throw new Error('No image data to submit')
                   ELSE Append(inflight, Op("submit", croppedImage, "pending"))
    /\ wlast' = Seen("Submit", croppedImage)
    /\ UNCHANGED <<currentStep, imageFileSrc, isCropEditorVisible, croppedImage,
                   imagePreviewUrl, activeIndex, hideLoader>>
    /\ UNCHANGED <<popupVars, sessionVars>>

\* .then(res => { if (res.success) goToNextStep() }).catch(console.error)
SubmitThen ==
    /\ ~Settling
    /\ \E i \in InflightOf("submit") :
          /\ inflight[i].stage = "pending"
          /\ \E res \in setProfilePicture :
                /\ onSubmitResponse(res)
                /\ wlast' = Seen("SubmitThen", res)
          /\ inflight' = [inflight EXCEPT ![i].stage = "finally"]
    /\ UNCHANGED <<isLoading, imageFileSrc, isCropEditorVisible, croppedImage,
                   imagePreviewUrl, activeIndex, hideLoader>>
    /\ UNCHANGED <<popupVars, sessionVars>>

\* .finally(() => { setIsLoading(false); fetchMock.restore() })
SubmitFinally ==
    /\ \E i \in InflightOf("submit") :
          /\ inflight[i].stage = "finally"
          /\ inflight' = Drop(inflight, i)
    /\ finallyHandler
    /\ wlast' = Seen("SubmitFinally", wlast.arg)
    /\ UNCHANGED <<currentStep, imageFileSrc, isCropEditorVisible, croppedImage,
                   imagePreviewUrl, activeIndex, hideLoader>>
    /\ UNCHANGED <<popupVars, sessionVars>>

\* onSkip={goToNextStep}
Skip ==
    /\ ~Settling
    /\ FormShown
    /\ goToNextStep
    /\ wlast' = Seen("Skip", Undefined)
    /\ UNCHANGED <<isLoading, imageFileSrc, isCropEditorVisible, croppedImage,
                   imagePreviewUrl, inflight, activeIndex, hideLoader>>
    /\ UNCHANGED <<popupVars, sessionVars>>

WizardInit ==
    /\ currentStep = InitialStep
    /\ isLoading = FALSE
    /\ imageFileSrc = Undefined
    /\ isCropEditorVisible = FALSE
    /\ croppedImage = Undefined
    /\ imagePreviewUrl = Undefined
    /\ inflight = <<>>
    /\ activeIndex = slideNext(0)
    /\ hideLoader = FALSE
    /\ wlast = [op |-> "init", arg |-> Undefined,
                prev |-> [currentStep |-> InitialStep, croppedImage |-> Undefined,
                          imagePreviewUrl |-> Undefined]]

-----------------------------------------------------------------------------
(* Session and route guards *)

\* The session without a user
NoUser == [id |-> Undefined, avatarSrc |-> Undefined]

\* The id the account service answers with
ResponseIds == {"1234"}

\* { id: user.id }: the session user a successful sign-in or sign-up sets
activeUserDropped(id) == NoUser
activeUserOf(id) == [id |-> id, avatarSrc |-> Undefined]

\* The values the session may be set to
SessionValues ==
    {NoUser} \cup { activeUserOf(id) : id \in ResponseIds }
             \cup { [id |-> id, avatarSrc |-> "avatar.png"] : id \in ResponseIds }

\* setSession(user | null): the session becomes exactly the given value
setSession(current, value) == value

Routes == {"/", "/signin", "/signup"}
NoRequest == "none"

\* The route the router shows
route == history[Len(history)]

\* navigate(to, { replace }): replace the current entry, or push a new one
navigate(h, to, replace) ==
    IF replace THEN [h EXCEPT ![Len(h)] = to] ELSE Append(h, to)

homeGuardPushes(h, u) ==
    IF u = NoUser THEN navigate(h, "/signin", FALSE) ELSE h
\* if (!user) navigate('/signin', { replace: true })
homeGuard(h, u) ==
    IF u = NoUser THEN navigate(h, "/signin", TRUE) ELSE h

signGuardAlways(h, u) == navigate(h, "/", TRUE)
\* if (activeUser) navigate('/', { replace: true })
signGuard(h, u) ==
    IF u # NoUser THEN navigate(h, "/", TRUE) ELSE h

\* UserWelcomeScreen: if (!user) return null
HomeContentShown == route = "/" /\ user # NoUser
\* IndexPage: avatarSrc && <img alt="Profile picture" />
AvatarShown == route = "/" /\ user.avatarSrc # Undefined

\* Whether the guard of the current route would navigate away
GuardWouldRedirect ==
    \/ route = "/" /\ homeGuard(history, user) # history
    \/ route \in {"/signin", "/signup"} /\ signGuard(history, user) # history

\* isSubmitting, isModalOpen, isAlertModalOpen of a page just mounted
FreshPage ==
    [isSubmitting |-> FALSE, isModalOpen |-> FALSE, isAlertModalOpen |-> FALSE]

\* onFormSignUpSubmit, onFormLoginSubmit
onFormSubmit(p) == [p EXCEPT !.isModalOpen = TRUE, !.isSubmitting = TRUE]
\* onFormSignUpSuccess, onFormLoginSuccess: the two flags they set
onFormSuccess(p) == [p EXCEPT !.isModalOpen = FALSE, !.isSubmitting = FALSE]
\* onFormSignUpError, onFormLoginError
onFormError(p) ==
    [p EXCEPT !.isModalOpen = TRUE, !.isSubmitting = FALSE,
              !.isAlertModalOpen = TRUE]
\* handleAlertModalDismiss
handleAlertModalDismiss(p) ==
    [p EXCEPT !.isModalOpen = FALSE, !.isAlertModalOpen = FALSE]

\* What the pages render over their content
BackdropShown == page.isModalOpen
BusyScreenShown == page.isSubmitting
AlertModalShown == page.isAlertModalOpen

\* Passwords the sign-up form is submitted with (all pass its schema)
Passwords == { <<"p", "w">>, <<" ", "p", "w">>, <<"p", "w", " ">> }

RECURSIVE trimStart(_)
trimStart(pw) ==
    IF pw # <<>> /\ Head(pw) = " " THEN trimStart(Tail(pw)) ELSE pw
RECURSIVE trimEnd(_)
trimEnd(pw) ==
    IF pw # <<>> /\ pw[Len(pw)] = " "
    THEN trimEnd(SubSeq(pw, 1, Len(pw) - 1)) ELSE pw
trimStartOnly(pw) == trimStart(pw)
\* data.password.trim()
trim(pw) == trimEnd(trimStart(pw))

\* A password that begins or ends with a space
HasOuterSpace(pw) == pw # <<>> /\ (Head(pw) = " " \/ pw[Len(pw)] = " ")

\* A request whose page has been left: its callbacks still run, the state
\* of the unmounted page is no longer there to set
Left(r) == IF r \in {"signin", "signup"} THEN r \o ":left" ELSE r

\* Whether a navigation to history h shows another page than the current one
Unmounts(h) == h[Len(h)] # route

\* What is recorded of the sign-up form: the password last submitted,
\* whether a password with an outer space was submitted earlier on this form,
\* the warnings given so far, and what the handler did with the submission.
\* No submission yet on the mounted sign-up form:
NoSub ==
    [op |-> "none", password |-> <<>>, earlier |-> FALSE, warnings |-> 0,
     onError |-> FALSE, onSubmit |-> FALSE, sent |-> FALSE]

\* After a navigation to h: a page that is left loses its state and its form
Navigated(h, p, r) ==
    /\ history' = h
    /\ page' = IF Unmounts(h) THEN FreshPage ELSE p
    /\ request' = IF Unmounts(h) THEN Left(r) ELSE r
    /\ userWarnedUntrimmedPassword' =
          IF Unmounts(h) THEN FALSE ELSE userWarnedUntrimmedPassword
    /\ sub' = IF Unmounts(h) THEN NoSub ELSE sub

\* What is recorded of a guard or handler: its name, whether it navigated,
\* the history length it found, the guard redirects since the session value
\* or the user's navigation last changed, who set the session, and how far
\* the sign-in scenario has got
Nav(op, redirected, redirects, by, story) ==
    [op |-> op, redirected |-> redirected, len |-> Len(history),
     redirects |-> redirects, by |-> by, story |-> story]

Redirected(h) == h # history
Count(h) == IF Redirected(h) THEN Min(nav.redirects + 1, MaxRedirects)
            ELSE nav.redirects

\* Scenario: the home guard turns an empty session away (1), admits the user a
\* sign-in or sign-up set (2), and turns the emptied session away again (3)
Story(h) ==
    CASE nav.story = 0 /\ Redirected(h) -> 1
      [] nav.story = 1 /\ ~Redirected(h) /\ nav.by \in {"signin", "signup"} -> 2
      [] nav.story = 2 /\ Redirected(h) /\ nav.by = "setSession" -> 3
      [] OTHER -> nav.story

\* The user follows a link or enters a URL
Visit(to) ==
    /\ Len(history) < MaxHistory
    /\ Navigated(navigate(history, to, FALSE), page, request)
    /\ nav' = Nav("visit", FALSE, 0, nav.by, nav.story)
    /\ UNCHANGED user
    /\ UNCHANGED <<popupVars, wizardVars>>

\* A holder of the session replaces its value (sign-out included)
SetSession(value) ==
    /\ user' = setSession(user, value)
    /\ nav' = Nav("setSession", FALSE, 0, "setSession", nav.story)
    /\ UNCHANGED <<history, request, page, userWarnedUntrimmedPassword, sub>>
    /\ UNCHANGED <<popupVars, wizardVars>>

\* Home page: useEffect(() => { if (!user) navigate('/signin', ...) }, [navigate, user])
HomeGuard ==
    /\ route = "/"
    /\ Navigated(homeGuard(history, user), page, request)
    /\ nav' = Nav("homeGuard", Redirected(history'), Count(history'), nav.by,
                  Story(history'))
    /\ UNCHANGED user
    /\ UNCHANGED <<popupVars, wizardVars>>

\* SignInPage: useEffect(() => { if (activeUser) navigate('/', ...) }, [activeUser, navigate])
SignInGuard ==
    /\ route = "/signin"
    /\ Navigated(signGuard(history, user), page, request)
    /\ nav' = Nav("signInGuard", Redirected(history'), Count(history'), nav.by,
                  nav.story)
    /\ UNCHANGED user
    /\ UNCHANGED <<popupVars, wizardVars>>

\* SignUpPage: useEffect(() => { if (activeUser) navigate('/', ...) }, [activeUser, navigate])
SignUpGuard ==
    /\ route = "/signup"
    /\ Navigated(signGuard(history, user), page, request)
    /\ nav' = Nav("signUpGuard", Redirected(history'), Count(history'), nav.by,
                  nav.story)
    /\ UNCHANGED user
    /\ UNCHANGED <<popupVars, wizardVars>>

\* onFormLoginSubmit: the sign-in form has sent its request (one request
\* at a time is followed)
OnFormLoginSubmit ==
    /\ route = "/signin"
    /\ request = NoRequest
    /\ request' = "signin"
    /\ page' = onFormSubmit(page)
    /\ nav' = Nav("onFormLoginSubmit", FALSE, nav.redirects, nav.by, nav.story)
    /\ UNCHANGED <<user, history, userWarnedUntrimmedPassword, sub>>
    /\ UNCHANGED <<popupVars, wizardVars>>

\* onFormLoginSuccess(user)
OnFormLoginSuccess ==
    /\ request \in {"signin", Left("signin")}
    /\ \E id \in ResponseIds : user' = setSession(user, activeUserOf(id))
    /\ Navigated(navigate(history, "/", TRUE),
                 IF request = "signin" THEN onFormSuccess(page) ELSE page,
                 NoRequest)
    /\ nav' = Nav("onFormLoginSuccess", FALSE, 0, "signin", nav.story)
    /\ UNCHANGED <<popupVars, wizardVars>>

\* onFormLoginError(err)
OnFormLoginError ==
    /\ request \in {"signin", Left("signin")}
    /\ request' = NoRequest
    /\ page' = IF request = "signin" THEN onFormError(page) ELSE page
    /\ nav' = Nav("onFormLoginError", FALSE, nav.redirects, nav.by, nav.story)
    /\ UNCHANGED <<user, history, userWarnedUntrimmedPassword, sub>>
    /\ UNCHANGED <<popupVars, wizardVars>>

\* AuthSignUpForm.formSignUpSubmitHandler(data), which warns through onError
\* or calls onSubmit, that is onFormSignUpSubmit, and sends its request (one
\* request at a time is followed)
OnFormSignUpSubmit(password) ==
    /\ route = "/signup"
    /\ request = NoRequest
    /\ LET warn == ~userWarnedUntrimmedPassword /\ password # trim(password)
       IN  /\ userWarnedUntrimmedPassword' = (userWarnedUntrimmedPassword \/ warn)
           /\ page' = IF warn THEN onFormError(page) ELSE onFormSubmit(page)
           /\ request' = IF warn THEN request ELSE "signup"
           /\ sub' = [op |-> "submit", password |-> password,
                      earlier |-> sub.earlier \/ HasOuterSpace(sub.password),
                      warnings |-> IF ~warn THEN sub.warnings
                                   ELSE IF sub.warnings = 0 THEN 1 ELSE 2,
                      onError |-> warn, onSubmit |-> ~warn, sent |-> ~warn]
    /\ nav' = Nav("onFormSignUpSubmit", FALSE, nav.redirects, nav.by, nav.story)
    /\ UNCHANGED <<user, history>>
    /\ UNCHANGED <<popupVars, wizardVars>>

\* onFormSignUpSuccess(user)
OnFormSignUpSuccess ==
    /\ request \in {"signup", Left("signup")}
    /\ \E id \in ResponseIds : user' = setSession(user, activeUserOf(id))
    /\ Navigated(navigate(history, "/", TRUE),
                 IF request = "signup" THEN onFormSuccess(page) ELSE page,
                 NoRequest)
    /\ nav' = Nav("onFormSignUpSuccess", FALSE, 0, "signup", nav.story)
    /\ UNCHANGED <<popupVars, wizardVars>>

\* onFormSignUpError(err)
OnFormSignUpError ==
    /\ request \in {"signup", Left("signup")}
    /\ request' = NoRequest
    /\ page' = IF request = "signup" THEN onFormError(page) ELSE page
    /\ nav' = Nav("onFormSignUpError", FALSE, nav.redirects, nav.by, nav.story)
    /\ UNCHANGED <<user, history, userWarnedUntrimmedPassword, sub>>
    /\ UNCHANGED <<popupVars, wizardVars>>

\* The alert modal's dismiss, on the sign-in or the sign-up page
AlertDismiss ==
    /\ route \in {"/signin", "/signup"}
    /\ AlertModalShown
    /\ page' = handleAlertModalDismiss(page)
    /\ nav' = Nav("handleAlertModalDismiss", FALSE, nav.redirects, nav.by, nav.story)
    /\ UNCHANGED <<user, history, request, userWarnedUntrimmedPassword, sub>>
    /\ UNCHANGED <<popupVars, wizardVars>>

\* The application starts signed out, opened at its home URL
SessionInit ==
    /\ user = NoUser
    /\ history = <<"/">>
    /\ request = NoRequest
    /\ nav = [op |-> "init", redirected |-> FALSE, len |-> 1, redirects |-> 0,
              by |-> "none", story |-> 0]
    /\ page = FreshPage
    /\ userWarnedUntrimmedPassword = FALSE
    /\ sub = NoSub

Init == PopupInit /\ WizardInit /\ SessionInit

Next ==
    \/ \E modal \in ModalInputs : QueueModal(modal)
    \/ \E id \in CallerIds \cup Ids(modals) : HideModal(id)
    \/ ClearModals
    \/ GetModals
    \/ MutateSnapshot
    \/ Render

Spec == Init /\ [][Next]_vars

NextWizard ==
    \/ \E step \in ProfileSetupStep : SetCurrentStep(step)
    \/ UsernameClaimed
    \/ LoaderTimeout
    \/ \E file \in Files : FileSelect(file)
    \/ OrientationThen
    \/ OrientationFinally
    \/ CropConfirm
    \/ CropSettled
    \/ CropCancel
    \/ Submit
    \/ SubmitThen
    \/ SubmitFinally
    \/ Skip

SpecWizard == Init /\ [][NextWizard]_vars

\* A promise that was started settles, and its callbacks then run
FairWizard ==
    /\ WF_vars(OrientationThen)
    /\ WF_vars(OrientationFinally)
    /\ WF_vars(SubmitThen)
    /\ WF_vars(SubmitFinally)

SpecWizardFair == SpecWizard /\ FairWizard

NextSession ==
    \/ \E to \in Routes : Visit(to)
    \/ \E value \in SessionValues : SetSession(value)
    \/ HomeGuard
    \/ SignInGuard
    \/ SignUpGuard
    \/ OnFormLoginSubmit
    \/ OnFormLoginSuccess
    \/ OnFormLoginError
    \/ \E password \in Passwords : OnFormSignUpSubmit(password)
    \/ OnFormSignUpSuccess
    \/ OnFormSignUpError
    \/ AlertDismiss

SpecSession == Init /\ [][NextSession]_vars

-----------------------------------------------------------------------------
(* Properties of the popup modal manager *)

HeadOf(q) == IF q = <<>> THEN NoModal ELSE q[1]
\* q with its i-th element left out
Without(q, i) == SubSeq(q, 1, i - 1) \o SubSeq(q, i + 1, Len(q))

\* C1: queueModal puts the new descriptor at index 1 and nowhere else: on a
\* non-empty queue the head stays, the new descriptor is second and every
\* former element from index 1 on moves right by one; on an empty queue the
\* new descriptor is the head.
C1_InsertAtIndexOne ==
    last.op = "queueModal" =>
        LET b == last.before
        IN  IF b = <<>>
            THEN queued = <<last.modal>>
            ELSE /\ Len(queued) = Len(b) + 1
                 /\ queued[1] = b[1]
                 /\ queued[2] = last.modal
                 /\ \A i \in 2..Len(b) : queued[i + 1] = b[i]

\* [A, B, C] then queueModal(D) gave [A, D, B, C]
C1_Witness ==
    /\ last.op = "queueModal"
    /\ Len(last.before) = 3
    /\ queued = <<last.before[1], last.modal, last.before[2], last.before[3]>>

C3_HideRemovesExactlyOne ==
    last.op = "hideModal" =>
        LET b == last.before
        IN  IF last.id \in Ids(b)
            THEN \E i \in 1..Len(b) : b[i].id = last.id /\ queued = Without(b, i)
            ELSE queued = b

\* C4: the queue a render shows is the calls made since the previous render,
\* applied one after another in program order to the queue of that render.
C4_ProgramOrder == ~dirty => modals = expected

\* The two alerts enqueued after the overlay at the head of q
AlertsBehind(q) == { i \in 2..Len(q) : q[i].props > q[1].props }
BusyScenario(q) ==
    /\ Len(q) >= 3
    /\ q[1].type = "busy"
    /\ Cardinality(AlertsBehind(q)) = 2
    /\ \A i \in AlertsBehind(q) : q[i].type = "alert" /\ q[i].id # q[1].id
FirstEnqueued(q) ==
    CHOOSE i \in AlertsBehind(q) : \A j \in AlertsBehind(q) : q[i].props <= q[j].props
LastEnqueued(q) ==
    CHOOSE i \in AlertsBehind(q) : \A j \in AlertsBehind(q) : q[i].props >= q[j].props
BusyStaysHead ==
    (last.op = "queueModal" /\ last.before # <<>> /\ last.before[1].type = "busy") =>
        HeadOf(queued) = last.before[1]

\* C5 as claimed: the busy overlay stays the head while alerts are enqueued,
\* and once it is dismissed with hideModal the alert enqueued first is the head.
C5_FirstAlertBecomesHead ==
    /\ BusyStaysHead
    /\ (last.op = "hideModal" /\ BusyScenario(last.committed)
          /\ last.id = last.committed[1].id) =>
            HeadOf(queued) = last.committed[FirstEnqueued(last.committed)]

\* C5 as amended: the busy overlay stays the head while alerts are enqueued,
\* and once it is dismissed with hideModal the alert enqueued last among the
\* two shown queued behind it is the head, the one enqueued first follows it.
C5_LastAlertBecomesHead ==
    /\ BusyStaysHead
    /\ (last.op = "hideModal" /\ BusyScenario(last.committed)
          /\ last.id = last.committed[1].id) =>
            /\ Len(queued) >= 2
            /\ queued[1] = last.committed[LastEnqueued(last.committed)]
            /\ queued[2] = last.committed[FirstEnqueued(last.committed)]

\* an overlay with two alerts queued behind it was dismissed
C5_Witness ==
    /\ last.op = "hideModal"
    /\ BusyScenario(last.committed)
    /\ last.id = last.committed[1].id
    /\ HeadOf(queued).type = "alert"

\* C6: the ids of the queued descriptors are pairwise distinct, in the rendered
\* queue and in the queue the next render will show.
C6_UniqueIds ==
    /\ \A i, j \in 1..Len(modals) : modals[i].id = modals[j].id => i = j
    /\ \A i, j \in 1..Len(queued) : queued[i].id = queued[j].id => i = j

\* C7: clearModals leaves the queue empty, whatever it held.
C7_ClearEmpties == last.op = "clearModals" => queued = <<>>

\* clearModals acted on a queue of several descriptors
C7_Witness == last.op = "clearModals" /\ Len(last.before) >= 2 /\ queued = <<>>

\* C8: getModals returns a copy equal to the rendered queue and changes nothing;
\* adding to, removing from or reordering the returned array leaves the
\* manager's queue as it was.
C8_SnapshotIsCopy ==
    /\ last.op = "getModals" => snap.items = modals
    /\ last.op \in {"getModals", "mutate"} =>
          /\ modals = last.committed
          /\ queued = last.before

\* the caller changed the array it got for a non-empty queue
C8_Witness ==
    /\ last.op = "mutate"
    /\ modals # <<>>
    /\ snap.items # modals

\* C9: queueModal with an explicit id that is already queued signals an error
\* and leaves the queue unchanged.
C9_DuplicateIdRejected ==
    (last.op = "queueModal" /\ last.id # NoId /\ last.id \in Ids(last.before)) =>
        /\ last.threw
        /\ queued = last.before

-----------------------------------------------------------------------------
(* Properties of the profile-setup wizard *)

\* C10: currentStep is always a member of the declared step enumeration; no
\* transition of a step screen, Skip and a successful Continue included,
\* leaves it undefined or outside that set.
C10_StepInEnumeration == currentStep \in ProfileSetupStep

\* The value the picture screen passes as the completion step
CompleteStep == StepMember("STEP_COMPLETE")

\* The handlers of the profile-picture screen
PictureScreenOps ==
    {"Skip", "Submit", "SubmitThen", "SubmitFinally", "FileSelect",
     "OrientationThen", "OrientationFinally", "CropConfirm", "CropSettled",
     "CropCancel"}

\* A value that is neither absent nor a rejection
IsValue(x) == x \notin {Undefined, "rejected"}

C12_SkipCompletes ==
    (wlast.op = "Skip" /\ wlast.prev.currentStep = "STEP_PROFILE_PICTURE")
        => /\ currentStep = "STEP_COMPLETE"
           /\ InflightOf("submit") = {}

\* C13: once currentStep is the completion value, no handler of the picture
\* screen changes it
C13_CompletionIsTerminal ==
    (wlast.op \in PictureScreenOps /\ wlast.prev.currentStep = CompleteStep)
        => currentStep = CompleteStep

\* C13 happens: an upload answered with a failure after the wizard completed
C13_Witness ==
    /\ wlast.op = "SubmitThen"
    /\ wlast.arg = "failure"
    /\ wlast.prev.currentStep = CompleteStep
    /\ currentStep = CompleteStep

\* C14: whenever currentStep changes, the carousel shows the slide of the new step
C14_CarouselFollowsStep ==
    wlast.prev.currentStep # currentStep
        => Slides[activeIndex] = SlideFor(currentStep)

\* C18: once the orientation fix of a selected file has settled, the crop
\* editor is shown, and the busy screen is not, if it gave a URL; the editor
\* is not shown if it gave none
C18_EditorAfterOrientation ==
    wlast.op = "OrientationFinally"
        => /\ IsValue(wlast.arg)
                => (EditorShown /\ ~BusyShown /\ imageFileSrc = wlast.arg)
           /\ wlast.arg = Undefined => ~EditorShown

\* C18 happens: the fix of a.jpg gave a URL and the editor shows it
C18_Witness ==
    /\ wlast.op = "OrientationFinally"
    /\ wlast.arg = "url:a.jpg"
    /\ EditorShown

\* C19: when a confirmed crop gives a blob the editor is hidden, the blob is
\* the image to submit and the preview is the URL made of that blob
C19_CropStored ==
    (wlast.op = "CropSettled" /\ IsValue(wlast.arg))
        => /\ ~isCropEditorVisible
           /\ croppedImage = wlast.arg
           /\ imagePreviewUrl = createObjectURL(wlast.arg)

\* C19 happens: a second crop replaces the stored image of the first
C19_Witness ==
    /\ wlast.op = "CropSettled"
    /\ wlast.prev.croppedImage = "blob:url:a.jpg"
    /\ wlast.arg = "blob:url:b.jpg"
    /\ croppedImage = "blob:url:b.jpg"

\* C20: Cancel in the crop editor hides the editor and leaves the stored
\* image, the preview URL and currentStep as they were
C20_CancelKeeps ==
    wlast.op = "CropCancel"
        => /\ ~isCropEditorVisible
           /\ ~EditorShown
           /\ croppedImage = wlast.prev.croppedImage
           /\ imagePreviewUrl = wlast.prev.imagePreviewUrl
           /\ currentStep = wlast.prev.currentStep

\* C20 happens: a crop is cancelled while an earlier cropped image is stored
C20_Witness ==
    /\ wlast.op = "CropCancel"
    /\ croppedImage # Undefined
    /\ imagePreviewUrl # Undefined
    /\ ~isCropEditorVisible

\* C21: an image labelled 'Preview of profile picture' is on the screen only
\* after a crop has been confirmed, and not on first load
C21_PreviewOnlyAfterCrop ==
    (\E img \in PreviewImages : img.alt = "Preview of profile picture")
        => croppedImage # Undefined

\* The views of the picture screen that are shown
ViewsShown ==
    {v \in {"busy", "editor", "form"} :
        \/ v = "busy" /\ BusyShown
        \/ v = "editor" /\ EditorShown
        \/ v = "form" /\ FormShown}

\* C23: exactly one of the busy screen, the crop editor and the picture form
\* is shown, and the editor is marked visible exactly when a source URL is held
C23_OneView ==
    /\ Cardinality(ViewsShown) = 1
    /\ isCropEditorVisible <=> imageFileSrc # Undefined

\* C23 happens: the editor has been given its source while the busy screen
\* is still the view shown
C23_Witness ==
    /\ isCropEditorVisible
    /\ imageFileSrc # Undefined
    /\ ViewsShown = {"busy"}

SubmitOps == {"Submit", "SubmitThen", "SubmitFinally"}

\* C24: a submission changes currentStep only on a response with success,
\* and then to the completion value; on a failure or a rejection the step,
\* the stored image and the preview stay and the picture form is shown again
C24_SubmitOutcome ==
    /\ (wlast.op \in SubmitOps /\ currentStep # wlast.prev.currentStep)
          => /\ wlast.op = "SubmitThen"
             /\ wlast.arg = "success"
             /\ currentStep = CompleteStep
    /\ (wlast.op \in SubmitOps \ {"Submit"} /\ wlast.arg # "success")
          => /\ currentStep = wlast.prev.currentStep
             /\ croppedImage = wlast.prev.croppedImage
             /\ imagePreviewUrl = wlast.prev.imagePreviewUrl
    /\ wlast.op = "SubmitFinally" => FormShown

\* C24 happens: the service answered with a failure and the form is back
C24_Witness ==
    /\ wlast.op = "SubmitFinally"
    /\ wlast.arg = "failure"
    /\ currentStep = "STEP_PROFILE_PICTURE"
    /\ FormShown

PreviewHasImage == imagePreviewUrl # Undefined => croppedImage # Undefined

-----------------------------------------------------------------------------
(* Properties of the session and the route guards *)

SignGuards == {"signInGuard", "signUpGuard"}
Guards == SignGuards \cup {"homeGuard"}

C26_WarnsOnce ==
    /\ sub.warnings <= 1
    /\ (sub.op = "submit" /\ HasOuterSpace(sub.password) /\ ~sub.earlier)
          => (sub.onError /\ ~sub.onSubmit /\ ~sub.sent)
    /\ (sub.op = "submit" /\ (sub.earlier \/ ~HasOuterSpace(sub.password)))
          => (~sub.onError /\ sub.onSubmit /\ sub.sent)
    /\ nav.op = "onFormSignUpSubmit"
          => /\ sub.sent <=> request = "signup"
             /\ sub.onError => (AlertModalShown /\ ~BusyScreenShown)
             /\ sub.onSubmit => BusyScreenShown

\* C26 happens: after the warning, a password with a trailing space is sent
C26_Witness ==
    /\ nav.op = "onFormSignUpSubmit"
    /\ sub.earlier
    /\ sub.password = <<"p", "w", " ">>
    /\ sub.warnings = 1
    /\ request = "signup"

\* C27: on the sign pages the busy screen and the alert modal are never shown
\* together, and each is shown only with the backdrop
C27_OverlaysConsistent ==
    /\ ~(BusyScreenShown /\ AlertModalShown)
    /\ BusyScreenShown => BackdropShown
    /\ AlertModalShown => BackdropShown

====
